---- MODULE Spec2Model ----
(***************************************************************************)
(* A model of the bookclub indexing and retrieval pipeline (main.py):      *)
(* stream_paragraphs, index_book, search_collection and the summary view.  *)
(* Strings are sequences of one-character strings, so that strip, lstrip,  *)
(* startswith, join, len and str are computed as the code computes them.   *)
(***************************************************************************)
EXTENDS Integers, Sequences, FiniteSets, TLC

VARIABLES
    md_lines,        \* the markdown file being read: a sequence of raw lines
    stream,          \* SpecStream: the state of one stream_paragraphs generator
    yielded,         \* SpecStream: the pairs that generator has yielded so far
    pc,              \* Spec: where each index_book call stands
    gen,             \* Spec: each call's stream_paragraphs generator
    ids,             \* Spec: each call's itertools.count(), as its next value
    md_tmp,          \* Spec: whether each call's temporary markdown file exists
    progress,        \* Spec: the messages each call gave progress_callback
    error,           \* Spec: the exception that ended a call, or None
    embed_calls,     \* Spec: embed_text invocations of each call
    db_dir,          \* whether the store directory <stem>_db exists
    collection,      \* the collection in it: whether it exists, rows, metadata
    add_log,         \* Spec: the collection.add calls made so far
    at_start,        \* Spec: what each call found when it began
    window,          \* SpecWindow: the search window
    summarize_calls, \* SpecWindow: summarize_text invocations so far
    last_query       \* SpecSearch: a search_collection call, inputs and result

vars == << md_lines, stream, yielded, pc, gen, ids, md_tmp, progress, error,
           embed_calls, db_dir, collection, add_log, at_start, window,
           summarize_calls, last_query >>

\* ------------------------------------------------------------- bounds
\* Longest markdown file of the line-level specification (SpecStream).
MaxLines == 4
\* SpecSearch and SpecWindow: most rows of a collection, largest distance,
\* largest n_results below the default, most show_summaries calls.
MaxRows == 3
MaxDist == 1
MaxK == 2
MaxShows == 2
\* Concurrent or successive index_book calls on the same book path.
NumCalls == 2
\* Paragraphs between two chapter headers of the generated books.
ParasPerChapter == 200

\* ------------------------------------------------------------ strings
Min(a, b) == IF a < b THEN a ELSE b

Rep(c, n) == [i \in 1..n |-> c]

IsSpace(c) == c \in {" ", "\t"}

RECURSIVE LStripSpace(_)
LStripSpace(s) ==
    IF s # <<>> /\ IsSpace(Head(s)) THEN LStripSpace(Tail(s)) ELSE s

RECURSIVE RStripSpace(_)
RStripSpace(s) ==
    IF s # <<>> /\ IsSpace(s[Len(s)])
    THEN RStripSpace(SubSeq(s, 1, Len(s) - 1))
    ELSE s

\* str.strip()
Strip(s) == RStripSpace(LStripSpace(s))

\* str.lstrip('#')
RECURSIVE LStripHash(_)
LStripHash(s) ==
    IF s # <<>> /\ Head(s) = "#" THEN LStripHash(Tail(s)) ELSE s

\* ' '.join(parts)
RECURSIVE Join(_)
Join(parts) ==
    IF parts = <<>> THEN <<>>
    ELSE IF Len(parts) = 1 THEN parts[1]
    ELSE parts[1] \o <<" ">> \o Join(Tail(parts))

\* str(n) for a natural number n: its decimal digits.
Digit(d) == CASE d = 0 -> "0" [] d = 1 -> "1" [] d = 2 -> "2" [] d = 3 -> "3"
              [] d = 4 -> "4" [] d = 5 -> "5" [] d = 6 -> "6" [] d = 7 -> "7"
              [] d = 8 -> "8" [] d = 9 -> "9"

RECURSIVE Str(_)
Str(n) == IF n < 10 THEN <<Digit(n)>> ELSE Str(n \div 10) \o <<Digit(n % 10)>>

\* ------------------------------------------------- stream_paragraphs
\* Python's None where a string may stand: a sequence that is no string of
\* characters.
None == << "None" >>
\* No exception has ended the call.
NoError == "none"

\* Python truthiness of extract_chapter_from_line's result (None or a str).
Truthy(v) == v # None /\ v # <<>>

extract_chapter_from_line(line) ==
    IF line # <<>> /\ Head(line) = "#" THEN Strip(LStripHash(line)) ELSE None

\* The paragraphs shorter than this are not yielded inside the loop.
MinParaLen == 20

\* The generator's locals before the first line is read.
GenInit == [current_chapter |-> <<"I","n","t","r","o","d","u","c","t","i","o","n">>,
            current_para    |-> <<>>,
            para_lines      |-> <<>>]

\* One iteration of "for line in f": the locals after it and what it yields
\* (a sequence of zero or one (chapter, text) pairs).  para_lines records the
\* numbers of the lines held in current_para; lines is what a yielded pair
\* was joined from.
LoopBody(g, raw, n) ==
    LET line    == Strip(raw)
        chapter == extract_chapter_from_line(line)
        text    == Strip(Join(g.current_para))
    IN  IF Truthy(chapter)
        THEN [gen |-> [g EXCEPT !.current_chapter = chapter], out |-> <<>>]
        ELSE IF line # <<>>
        THEN [gen |-> [g EXCEPT !.current_para = Append(@, line),
                                !.para_lines   = Append(@, n)],
              out |-> <<>>]
        ELSE IF g.current_para # <<>>
        THEN [gen |-> [g EXCEPT !.current_para = <<>>, !.para_lines = <<>>],
              out |-> IF Len(text) >= MinParaLen
                      THEN << [chapter |-> g.current_chapter, text |-> text,
                               lines |-> g.para_lines] >>
                      ELSE <<>>]
        ELSE [gen |-> g, out |-> <<>>]

\* The code after the loop: the last paragraph of a file that does not end
\* in a blank line.
AfterLoop(g) ==
    IF g.current_para # <<>>
    THEN << [chapter |-> g.current_chapter,
             text    |-> Strip(Join(g.current_para)),
             lines   |-> g.para_lines] >>
    ELSE <<>>

\* The generator: its position in the file, its locals, and whether the
\* function body has run to its end.
StreamInit == [pos |-> 0, locals |-> GenInit, finished |-> FALSE]

\* The generator fed one more line while a batch of at most n pairs is being
\* drawn from it: nothing happens once the batch is full (the generator is
\* suspended at its yield) or the generator has ended.
Feed(st, n, raw, k) ==
    IF Len(st.batch) = n \/ st.gs.finished THEN st
    ELSE LET r == LoopBody(st.gs.locals, raw, k)
         IN  [gs    |-> [st.gs EXCEPT !.pos = k, !.locals = r.gen],
              batch |-> st.batch \o r.out]

\* Feed over the lines lo..hi of the file, in order.
RECURSIVE FeedLines(_, _, _, _, _)
FeedLines(st, file, n, lo, hi) ==
    IF lo > hi THEN st
    ELSE IF lo = hi THEN Feed(st, n, file[lo], lo)
    ELSE LET mid == (lo + hi) \div 2
         IN  CHOOSE r \in { FeedLines(left, file, n, mid + 1, hi) :
                              left \in { FeedLines(st, file, n, lo, mid) } } : TRUE

\* itertools.batched(generator, n): the next batch of at most n pairs and the
\* generator after it.  A batch that is not full when the file ends gets what
\* the code after the loop yields, and the generator ends.
AtEnd(st, n) ==
    IF Len(st.batch) = n \/ st.gs.finished THEN st
    ELSE [gs    |-> [st.gs EXCEPT !.finished = TRUE],
          batch |-> st.batch \o AfterLoop(st.gs.locals)]

Batched(file, gs, n) ==
    CHOOSE r \in { AtEnd(st, n) :
                     st \in { FeedLines([gs |-> gs, batch |-> <<>>], file, n,
                                        gs.pos + 1, Len(file)) } } : TRUE

\* ------------------------------------------------ the index_book state
Calls == 1..NumCalls

index_vars == << pc, gen, ids, md_tmp, progress, error, embed_calls, add_log,
                at_start >>
store_vars == << db_dir, collection >>
stream_vars == << stream, yielded >>
window_vars == << window, summarize_calls, last_query >>

\* No index_book call has started and the store directory does not exist.
IndexInit ==
    /\ pc = [p \in Calls |-> "start"]
    /\ gen = [p \in Calls |-> StreamInit]
    /\ ids = [p \in Calls |-> 0]
    /\ md_tmp = [p \in Calls |-> FALSE]
    /\ progress = [p \in Calls |-> <<>>]
    /\ error = [p \in Calls |-> NoError]
    /\ embed_calls = [p \in Calls |-> 0]
    /\ add_log = <<>>
    /\ at_start = [p \in Calls |-> [returned |-> FALSE, aborted |-> FALSE]]

\* The store directory does not exist.  A collection is its existence, its
\* rows in insertion order and its collection-level metadata map.
NoCollection == [exists |-> FALSE, rows |-> <<>>, metadata |-> <<>>]

StoreInit == db_dir = FALSE /\ collection = NoCollection

\* The search window is not open; shows counts the show_summaries calls and
\* shown is the set of summary lists they displayed.
WindowInit ==
    /\ window = [open |-> FALSE, status |-> "", results |-> <<>>,
                 shows |-> 0, shown |-> {}]
    /\ summarize_calls = 0

\* No search_collection call is under way.
NoQuery == [n_results |-> 0, distance |-> <<>>, returned |-> <<>>,
            result |-> <<>>, done |-> FALSE]

\* ---------------------------- SpecStream: stream_paragraphs, line by line
TitleA == <<"A">>
TitleB == <<"B">>
TextLong == Rep("x", 20)
TextTen == Rep("y", 10)
TextShort == <<"I","n","t","r","o"," ","p","a","r","a"," ","o","n","e",".">>

\* The raw lines the files of SpecStream are made of: a blank line, a line of
\* whitespace, two headers, a lone '#', and text lines of 20, 10 and 15
\* characters (the last two with surrounding whitespace).
LineSet == { <<>>, <<" ">>,
             <<"#", " ">> \o TitleA, <<"#", "#", " ">> \o TitleB \o <<" ">>,
             TextLong, <<" ">> \o TextTen, TextShort }

RECURSIVE FilesOfLen(_)
FilesOfLen(n) ==
    IF n = 0 THEN { <<>> }
    ELSE { Append(f, l) : f \in FilesOfLen(n - 1), l \in LineSet }

Files == UNION { FilesOfLen(n) : n \in 0..MaxLines }

StreamSpecInit ==
    /\ md_lines \in Files
    /\ stream = StreamInit
    /\ yielded = <<>>
    /\ IndexInit /\ StoreInit /\ WindowInit
    /\ last_query = NoQuery

\* One iteration of the for loop.
StreamLine ==
    /\ ~stream.finished
    /\ stream.pos < Len(md_lines)
    /\ LET r == LoopBody(stream.locals, md_lines[stream.pos + 1], stream.pos + 1)
       IN  /\ stream' = [stream EXCEPT !.pos = @ + 1, !.locals = r.gen]
           /\ yielded' = yielded \o r.out
    /\ UNCHANGED << md_lines, index_vars, store_vars, window_vars >>

\* The end of the file: the code after the loop, and the generator's end.
StreamEnd ==
    /\ ~stream.finished
    /\ stream.pos = Len(md_lines)
    /\ stream' = [stream EXCEPT !.finished = TRUE]
    /\ yielded' = yielded \o AfterLoop(stream.locals)
    /\ UNCHANGED << md_lines, index_vars, store_vars, window_vars >>

StreamNext == StreamLine \/ StreamEnd

SpecStream == StreamSpecInit /\ [][StreamNext]_vars

\* ------------------------------------------- Spec: index_book, call by call
\* The markdown ebook-convert produces for a book of n paragraphs: a header
\* line before every ParasPerChapter-th paragraph, each paragraph one line of
\* more than MinParaLen characters, a blank line after it.
ParaText(i) == Rep("x", MinParaLen) \o Str(i)
ChapterTitle(j) == <<"C">> \o Str(j)
Chunk(i) ==
    (IF i % ParasPerChapter = 0
     THEN << <<"#", " ">> \o ChapterTitle(i \div ParasPerChapter), <<>> >>
     ELSE <<>>)
    \o << ParaText(i), <<>> >>

RECURSIVE Chunks(_, _)
Chunks(lo, hi) ==
    IF lo > hi THEN <<>>
    ELSE IF lo = hi THEN Chunk(lo)
    ELSE LET mid == (lo + hi) \div 2
         IN  Chunks(lo, mid) \o Chunks(mid + 1, hi)

BookMd(n) == Chunks(0, n - 1)

\* Book sizes on both sides of a batch boundary and of the extractor's cap.
BookSizes == {0, 1, 3, 257, 301, 513}

BatchSize == 256

\* unzip(*batch): the batch's chapters and its texts, in order.
Unzip(batch) ==
    [chapter |-> [i \in 1..Len(batch) |-> batch[i].chapter],
     text    |-> [i \in 1..Len(batch) |-> batch[i].text]]

\* ollama.embed: one vector per input, in order (the vector is a stand-in).
embed_text(text) == [i \in 1..Len(text) |-> <<Len(text[i])>>]

\* TakeIds with the counter made anew for every batch.
TakeIdsRestarted(c, n) == [ids |-> [i \in 1..n |-> Str(i - 1)], next |-> c + n]

\* map(str, itertools.islice(ids, n)) on the counter whose next value is c:
\* the ids drawn and the counter afterwards.
TakeIds(c, n) == [ids |-> [i \in 1..n |-> Str(c + i - 1)], next |-> c + n]

Msg(p, m) == [progress EXCEPT ![p] = Append(@, m)]

SpecInit ==
    /\ md_lines \in { BookMd(n) : n \in BookSizes }
    /\ stream = StreamInit
    /\ yielded = <<>>
    /\ IndexInit /\ StoreInit /\ WindowInit
    /\ last_query = NoQuery

\* progress_callback("Converting..."); md_path = convert_to_markdown(book_path)
Convert(p) ==
    /\ pc[p] = "start"
    /\ progress' = Msg(p, "converting")
    /\ md_tmp' = [md_tmp EXCEPT ![p] = TRUE]
    /\ pc' = [pc EXCEPT ![p] = "converted"]
    /\ at_start' = [at_start EXCEPT ![p] =
            [returned |-> \E q \in Calls : pc[q] = "returned",
             aborted  |-> \E q \in Calls : error[q] = "embedding_failed"]]
    /\ UNCHANGED << md_lines, gen, ids, error, embed_calls, add_log,
                    store_vars, stream_vars, window_vars >>

\* progress_callback("Creating database..."); chromadb.PersistentClient(path),
\* which makes the store directory when it is not there.
OpenClient(p) ==
    /\ pc[p] = "converted"
    /\ progress' = Msg(p, "creating")
    /\ db_dir' = TRUE
    /\ pc' = [pc EXCEPT ![p] = "client"]
    /\ UNCHANGED << md_lines, gen, ids, md_tmp, error, embed_calls, add_log,
                    at_start, collection, stream_vars, window_vars >>

\* CreateCollection with client.get_or_create_collection(name) in its place.
CreateCollectionGetOrCreate(p) ==
    /\ pc[p] = "client"
    /\ collection' = [collection EXCEPT !.exists = TRUE]
    /\ ids' = [ids EXCEPT ![p] = 0]
    /\ gen' = [gen EXCEPT ![p] = StreamInit]
    /\ pc' = [pc EXCEPT ![p] = "loop"]
    /\ UNCHANGED << md_lines, md_tmp, progress, error, embed_calls, add_log,
                    at_start, db_dir, stream_vars, window_vars >>

\* client.create_collection(name): raises when the collection exists, and the
\* exception leaves index_book (IndexingWindow shows it); otherwise the
\* collection is made, ids = itertools.count() and the batch loop starts.
CreateCollection(p) ==
    /\ pc[p] = "client"
    /\ IF collection.exists
       THEN /\ error' = [error EXCEPT ![p] = "collection_exists"]
            /\ pc' = [pc EXCEPT ![p] = "error"]
            /\ UNCHANGED << collection, ids, gen >>
       ELSE /\ collection' = [exists |-> TRUE, rows |-> <<>>, metadata |-> <<>>]
            /\ ids' = [ids EXCEPT ![p] = 0]
            /\ gen' = [gen EXCEPT ![p] = StreamInit]
            /\ pc' = [pc EXCEPT ![p] = "loop"]
            /\ UNCHANGED error
    /\ UNCHANGED << md_lines, md_tmp, progress, embed_calls, add_log, at_start,
                    db_dir, stream_vars, window_vars >>

\* One iteration of the batch loop: a batch of at most 256 pairs is embedded
\* and added under the next ids.
Batch(p) ==
    /\ pc[p] = "loop"
    /\ \E b \in { Batched(md_lines, gen[p], BatchSize) } :
       \E u \in { Unzip(b.batch) } :
       \E embeddings \in { embed_text(u.text) } :
       \E t \in { TakeIds(ids[p], Len(u.chapter)) } :
       \E metadatas \in { [i \in 1..Len(u.chapter) |-> [chapter |-> u.chapter[i]]] } :
           /\ b.batch # <<>>
           /\ gen' = [gen EXCEPT ![p] = b.gs]
           /\ embed_calls' = [embed_calls EXCEPT ![p] = @ + 1]
           /\ progress' = Msg(p, <<"processing", u.chapter[1]>>)
           /\ ids' = [ids EXCEPT ![p] = t.next]
           /\ collection' =
                [collection EXCEPT !.rows = @ \o
                    [i \in 1..Len(t.ids) |->
                        [id |-> t.ids[i], embedding |-> embeddings[i],
                         document |-> u.text[i], metadata |-> metadatas[i]]]]
           /\ add_log' = Append(add_log,
                [by |-> p, ids |-> t.ids, n_embeddings |-> Len(embeddings),
                 n_documents |-> Len(u.text), n_metadatas |-> Len(metadatas)])
    /\ UNCHANGED << md_lines, pc, md_tmp, error, at_start, db_dir, stream_vars,
                    window_vars >>

\* The same iteration when embed_text raises (the inference service fails):
\* the exception leaves index_book with the batch not added.
BatchEmbedFails(p) ==
    /\ pc[p] = "loop"
    /\ \E b \in { Batched(md_lines, gen[p], BatchSize) } :
           /\ b.batch # <<>>
           /\ gen' = [gen EXCEPT ![p] = b.gs]
    /\ embed_calls' = [embed_calls EXCEPT ![p] = @ + 1]
    /\ error' = [error EXCEPT ![p] = "embedding_failed"]
    /\ pc' = [pc EXCEPT ![p] = "error"]
    /\ UNCHANGED << md_lines, ids, md_tmp, progress, add_log, at_start,
                    store_vars, stream_vars, window_vars >>

\* The stream is exhausted: os.unlink(md_path); return db_path.
LoopEnd(p) ==
    /\ pc[p] = "loop"
    /\ \E b \in { Batched(md_lines, gen[p], BatchSize) } :
           /\ b.batch = <<>>
           /\ gen' = [gen EXCEPT ![p] = b.gs]
    /\ md_tmp' = [md_tmp EXCEPT ![p] = FALSE]
    /\ pc' = [pc EXCEPT ![p] = "returned"]
    /\ UNCHANGED << md_lines, ids, progress, error, embed_calls, add_log,
                    at_start, store_vars, stream_vars, window_vars >>

index_book(p) ==
    \/ Convert(p)
    \/ OpenClient(p)
    \/ CreateCollection(p)
    \/ Batch(p)
    \/ BatchEmbedFails(p)
    \/ LoopEnd(p)

Next == \E p \in Calls : index_book(p)

Spec == SpecInit /\ [][Next]_vars

\* --------------------------------- SpecSearch: the search window
Prefix(s, n) == SubSeq(s, 1, Min(n, Len(s)))

\* Code points of the characters chapter titles are compared by.
Ord(c) == CASE c = "A" -> 65 [] c = "B" -> 66 [] c = "C" -> 67
            [] c = "0" -> 48 [] c = "1" -> 49 [] c = "2" -> 50
            [] OTHER -> 32

\* s < t for Python strings.
RECURSIVE StrLess(_, _)
StrLess(s, t) ==
    IF t = <<>> THEN FALSE
    ELSE IF s = <<>> THEN TRUE
    ELSE IF Ord(Head(s)) # Ord(Head(t)) THEN Ord(Head(s)) < Ord(Head(t))
    ELSE StrLess(Tail(s), Tail(t))

\* sorted(keys): the titles in ascending order.
RECURSIVE SortedTitles(_)
SortedTitles(S) ==
    IF S = {} THEN <<>>
    ELSE LET m == CHOOSE x \in S : \A y \in S \ {x} : StrLess(x, y)
         IN  <<m>> \o SortedTitles(S \ {m})

\* get_chapter_docs: each chapter's documents, in the order collection.get
\* returns them (insertion order).
RECURSIVE DocsOf(_, _)
DocsOf(rows, c) ==
    IF rows = <<>> THEN <<>>
    ELSE (IF Head(rows).metadata.chapter = c THEN << Head(rows).document >> ELSE <<>>)
         \o DocsOf(Tail(rows), c)

get_chapter_docs(coll) ==
    [c \in { coll.rows[i].metadata.chapter : i \in 1..Len(coll.rows) }
        |-> DocsOf(coll.rows, c)]

DocsPerSummary == 10
PromptChars == 4000
PassageChars == 300
DefaultResults == 10

\* What ollama.generate answers: the model's answer is not a function of the
\* prompt alone (it samples), so an answer is any of these.
Responses == {"summary 1", "summary 2"}

\* summarize_text's prompt for a chapter: text[:4000] of its first ten
\* documents joined by spaces.
SummaryPrompt(docs) == Prefix(Join(Prefix(docs, DocsPerSummary)), PromptChars)

\* show_summaries: one summarize_text call per chapter, in title order;
\* answer[c] is what the model answers for chapter c this time.
show_summaries(w, answer) ==
    LET chapters == get_chapter_docs(collection)
        titles   == SortedTitles(DOMAIN chapters)
        items    == [i \in 1..Len(titles) |->
                        [chapter |-> titles[i],
                         prompt  |-> SummaryPrompt(chapters[titles[i]]),
                         summary |-> answer[titles[i]]]]
    IN  /\ window' = [w EXCEPT !.results = items,
                                     !.status = "Showing summaries",
                                     !.shows = @ + 1,
                                     !.shown = @ \cup {items}]
        /\ summarize_calls' = summarize_calls + Len(titles)

ChaptersOf(coll) == { coll.rows[i].metadata.chapter : i \in 1..Len(coll.rows) }

\* collection.query(query_embeddings, n_results): by the store's contract the
\* min(n_results, count) rows nearest to the query, nearest first (rows at the
\* same distance in insertion order).  distance[i] is row i's distance.
RECURSIVE Nearest(_, _, _)
Nearest(S, distance, n) ==
    IF n = 0 \/ S = {} THEN <<>>
    ELSE LET m == CHOOSE i \in S : \A j \in S :
                     \/ distance[i] < distance[j]
                     \/ (distance[i] = distance[j] /\ i <= j)
         IN  <<m>> \o Nearest(S \ {m}, distance, n - 1)

CollectionQuery(rows, distance, n_results) ==
    LET hits == Nearest(1..Len(rows), distance, n_results)
    IN  [documents |-> << [i \in 1..Len(hits) |-> rows[hits[i]].document] >>,
         metadatas |-> << [i \in 1..Len(hits) |-> rows[hits[i]].metadata] >>,
         distances |-> << [i \in 1..Len(hits) |-> distance[hits[i]]] >>]

\* ZipResults with the metadatas taken from the far end of their list.
ZipResultsMisaligned(results) ==
    LET n == Len(results.documents[1])
    IN  [i \in 1..n |-> << results.metadatas[1][n + 1 - i].chapter,
                           results.documents[1][i],
                           results.distances[1][i] >>]

\* The list comprehension over zip(documents[0], metadatas[0], distances[0]).
ZipResults(results) ==
    LET n == Min(Len(results.documents[1]),
                 Min(Len(results.metadatas[1]), Len(results.distances[1])))
    IN  [i \in 1..n |-> << results.metadatas[1][i].chapter,
                           results.documents[1][i],
                           results.distances[1][i] >>]

\* search_collection(collection, query, n_results), with the distances the
\* query's embedding has to the rows: what the store returned and the
\* function's result.
search_collection(rows, distance, n_results) ==
    LET results == CollectionQuery(rows, distance, n_results)
    IN  [returned |-> results, result |-> ZipResults(results)]

\* perform_search's display of the hits: under each chapter, in title order,
\* its passages in ranked order, cut to 300 characters.
RECURSIVE PassagesOf(_, _)
PassagesOf(result, c) ==
    IF result = <<>> THEN <<>>
    ELSE (IF Head(result)[1] = c
          THEN << << "passage", Head(result)[3],
                     Prefix(Head(result)[2], PassageChars)
                       \o (IF Len(Head(result)[2]) > PassageChars
                           THEN <<".", ".", ".">> ELSE <<>>) >> >>
          ELSE <<>>)
         \o PassagesOf(Tail(result), c)

RECURSIVE Grouped(_, _)
Grouped(result, titles) ==
    IF titles = <<>> THEN <<>>
    ELSE << <<"header", Head(titles)>> >> \o PassagesOf(result, Head(titles))
         \o Grouped(result, Tail(titles))

\* The collections index_book leaves behind: rows "0".."T-1" in insertion
\* order, every row under some chapter, no collection metadata.
RowsOf(chapters) ==
    [i \in 1..Len(chapters) |->
        [id |-> Str(i - 1), embedding |-> embed_text(<<ParaText(i - 1)>>)[1],
         document |-> ParaText(i - 1), metadata |-> [chapter |-> chapters[i]]]]

RECURSIVE TitleSeqs(_)
TitleSeqs(n) ==
    IF n = 0 THEN { <<>> }
    ELSE { Append(t, c) : t \in TitleSeqs(n - 1), c \in {TitleA, TitleB} }

Collections ==
    { [exists |-> TRUE, rows |-> RowsOf(chapters), metadata |-> <<>>] :
        chapters \in UNION { TitleSeqs(T) : T \in 0..MaxRows } }

Distances(rows) == [1..Len(rows) -> 0..MaxDist]

\* The store holds a collection of an index_book run that returned.
WindowSpecInit ==
    /\ md_lines = <<>>
    /\ stream = StreamInit
    /\ yielded = <<>>
    /\ IndexInit /\ WindowInit
    /\ db_dir = TRUE
    /\ collection \in Collections
    /\ last_query = NoQuery

\* What the search line edit may hold.
Queries == { <<>>, <<" ">>, <<" ", "q">> }

\* create_search_window: SearchWindow.__init__ ends in show_summaries().
OpenWindow ==
    /\ ~window.open
    /\ collection.exists
    /\ \E answer \in [ChaptersOf(collection) -> Responses] :
          show_summaries([window EXCEPT !.open = TRUE], answer)
    /\ UNCHANGED << md_lines, index_vars, store_vars, stream_vars, last_query >>

\* perform_search with a blank search line: show_summaries() again.
ReturnToSummaries(text) ==
    /\ window.open
    /\ window.shows < MaxShows
    /\ Strip(text) = <<>>
    /\ \E answer \in [ChaptersOf(collection) -> Responses] :
          show_summaries(window, answer)
    /\ UNCHANGED << md_lines, index_vars, store_vars, stream_vars, last_query >>

\* perform_search with a query: the ten nearest passages, grouped by chapter.
PerformSearch(text, distance) ==
    /\ window.open
    /\ Strip(text) # <<>>
    /\ \E q \in { search_collection(collection.rows, distance, DefaultResults) } :
          window' = [window EXCEPT
                !.results = Grouped(q.result,
                    SortedTitles({ q.result[i][1] : i \in 1..Len(q.result) })),
                !.status = "Found results"]
    /\ UNCHANGED << md_lines, index_vars, store_vars, stream_vars,
                    summarize_calls, last_query >>

WindowNext ==
    \/ OpenWindow
    \/ \E text \in Queries : ReturnToSummaries(text)
    \/ \E text \in Queries, distance \in Distances(collection.rows) :
          PerformSearch(text, distance)

SpecWindow == WindowSpecInit /\ [][WindowNext]_vars

\* ------------------------- SpecSearch: search_collection on drawn inputs
\* A collection, the distances of a query to its rows, and n_results.
SearchInit ==
    /\ md_lines = <<>>
    /\ stream = StreamInit
    /\ yielded = <<>>
    /\ IndexInit /\ WindowInit
    /\ db_dir = TRUE
    /\ collection \in Collections
    /\ \E distance \in Distances(collection.rows) :
       \E k \in 1..MaxK \cup {DefaultResults} :
          last_query = [NoQuery EXCEPT !.n_results = k, !.distance = distance]

SearchCall ==
    /\ ~last_query.done
    /\ \E q \in { search_collection(collection.rows, last_query.distance,
                                      last_query.n_results) } :
          last_query' = [last_query EXCEPT !.returned = q.returned,
                                           !.result = q.result,
                                           !.done = TRUE]
    /\ UNCHANGED << md_lines, index_vars, store_vars, stream_vars, window,
                    summarize_calls >>

SearchNext == SearchCall

SpecSearch == SearchInit /\ [][SearchNext]_vars

\* ---------------------------------------------------- claims under Spec
\* Every pair stream_paragraphs yields for the file, in order.
AllPairs(file) == Batched(file, StreamInit, Len(file) + 1).batch

\* The extractor's cap (iter_chapter_paragraphs).
ExtractorCap == 300


Terminal(p) == pc[p] \in {"returned", "error"}
\* Call p began after call q had returned.
BeganAfterReturn(p) == at_start[p].returned
\* Call p began after call q had aborted in its batch loop.
BeganAfterAbort(p) == at_start[p].aborted
AddsBy(p) == { k \in 1..Len(add_log) : add_log[k].by = p }
\* Call p created the collection.
Creator(p) == pc[p] \in {"loop", "returned"} \/ error[p] = "embedding_failed"

\* C1: a second index call on the same path, made after the first returned,
\* returns without error, reports "already indexed", embeds and adds nothing.
C1_SecondCallAlreadyIndexed ==
    \A p \in Calls :
        (BeganAfterReturn(p) /\ Terminal(p)) =>
            /\ pc[p] = "returned"
            /\ error[p] = NoError
            /\ \E i \in 1..Len(progress[p]) : progress[p][i] = "already indexed"
            /\ embed_calls[p] = 0
            /\ AddsBy(p) = {}

\* C2: the ids passed to the add calls are "0".."N-1" for the N paragraphs
\* streamed so far, in stream order, none repeated or skipped at a batch
\* boundary; every add call but the last holds 256 paragraphs, and each call
\* gets as many ids as embeddings, documents and metadatas.
C2_FreshIncreasingIds ==
    \A all \in { AllPairs(md_lines) } :
    \A rows \in { collection.rows } :
        /\ \A k \in 1..Len(add_log) :
              /\ Len(add_log[k].ids) = add_log[k].n_embeddings
              /\ Len(add_log[k].ids) = add_log[k].n_documents
              /\ Len(add_log[k].ids) = add_log[k].n_metadatas
              /\ Len(add_log[k].ids) \in 1..BatchSize
              /\ k < Len(add_log) => Len(add_log[k].ids) = BatchSize
              /\ \A j \in 1..Len(add_log[k].ids) :
                    /\ add_log[k].ids[j] = Str((k - 1) * BatchSize + j - 1)
                    /\ rows[(k - 1) * BatchSize + j].id = add_log[k].ids[j]
        /\ Len(rows) <= Len(all)
        /\ \A i \in 1..Len(rows) :
              /\ rows[i].id = Str(i - 1)
              /\ rows[i].document = all[i].text
              /\ rows[i].metadata.chapter = all[i].chapter
        /\ Cardinality({ rows[i].id : i \in 1..Len(rows) }) = Len(rows)
        /\ \A p \in Calls :
              /\ Creator(p) => ids[p] = Len(rows)
              /\ pc[p] = "returned" => Len(rows) = Len(all)

\* C2's case: a run has returned after a full batch and a shorter last one.
C2_Witness ==
    /\ \E p \in Calls : pc[p] = "returned"
    /\ Len(add_log) >= 2
    /\ Len(add_log[Len(add_log)].ids) < BatchSize

\* C3: an index run that returns has added min(n, 300) paragraphs, the first
\* ones of the stream of n pairs.
C3_TruncatedTo300 ==
    \A p \in Calls :
        pc[p] = "returned" =>
            \A all \in { AllPairs(md_lines) } :
                /\ Len(collection.rows) = Min(Len(all), ExtractorCap)
                /\ \A i \in 1..Len(collection.rows) :
                      collection.rows[i].document = all[i].text

\* C4: when index has returned, the collection's metadata holds the summaries
\* and the book path.
C4_SummariesCommitted ==
    \A p \in Calls :
        pc[p] = "returned" =>
            {"summaries", "book_path"} \subseteq DOMAIN collection.metadata

\* C7: at most one call creates the collection; once every call is past the
\* creation exactly one has; a call that got the collection-exists error has
\* embedded and added nothing.
C7_OneCreator ==
    /\ Cardinality({ p \in Calls : Creator(p) }) <= 1
    /\ (\A p \in Calls : pc[p] \notin {"start", "converted", "client"})
          => Cardinality({ p \in Calls : Creator(p) }) = 1
    /\ \A p \in Calls :
          /\ ~Creator(p) => (AddsBy(p) = {} /\ embed_calls[p] = 0)
          /\ (pc[p] = "error" /\ ~Creator(p)) => error[p] = "collection_exists"

\* C7's case: two calls ran concurrently; one got the collection-exists error
\* while the other, which created the collection, is still adding batches.
C7_Witness ==
    \E p, q \in Calls :
        /\ p # q
        /\ error[q] = "collection_exists"
        /\ pc[p] = "loop" /\ AddsBy(p) # {}

\* C8: a call made after a run aborted in its batch loop returns "already
\* indexed" without raising, adds nothing and writes no summaries.
C8_RerunAfterAbort ==
    \A p \in Calls :
        (BeganAfterAbort(p) /\ Terminal(p)) =>
            /\ pc[p] = "returned"
            /\ error[p] = NoError
            /\ \E i \in 1..Len(progress[p]) : progress[p][i] = "already indexed"
            /\ AddsBy(p) = {}
            /\ "summaries" \notin DOMAIN collection.metadata

\* ------------------------------------------------ claims under SpecWindow
\* C5: once indexing has completed, the summaries requests invoke the
\* Summarization Client no further and all show the same list.
C5_SummaryCache ==
    /\ summarize_calls = 0
    /\ Cardinality(window.shown) <= 1

IsBlank(raw) == Strip(raw) = <<>>
IsHeader(raw) == Truthy(extract_chapter_from_line(Strip(raw)))
IsText(raw) == ~IsBlank(raw) /\ ~IsHeader(raw)

\* Line k is a blank line that ends a paragraph: some text line before it is
\* not separated from it by a blank line.
EndsParagraph(file, k) ==
    /\ IsBlank(file[k])
    /\ \E j \in 1..(k - 1) :
          IsText(file[j]) /\ \A m \in (j + 1)..(k - 1) : ~IsBlank(file[m])

\* The file ends inside a paragraph.
EndsInParagraph(file) ==
    \E j \in 1..Len(file) :
        IsText(file[j]) /\ \A m \in (j + 1)..Len(file) : ~IsBlank(file[m])

\* C9: the stream yields every paragraph of non-blank text once, whatever its
\* length and its place in the file, and nothing else.
C9_DropsOnlyBlank ==
    /\ Len(yielded) =
          Cardinality({ k \in 1..stream.pos : EndsParagraph(md_lines, k) })
          + (IF stream.finished /\ EndsInParagraph(md_lines) THEN 1 ELSE 0)
    /\ \A i \in 1..Len(yielded) : yielded[i].text # <<>>

\* The last header line before line l (0 when there is none) and its title.
LastHeader(file, l) ==
    LET hs == { h \in 1..(l - 1) : IsHeader(file[h]) }
    IN  IF hs = {} THEN 0 ELSE CHOOSE h \in hs : \A g \in hs : g <= h

ChapterAt(file, l) ==
    IF LastHeader(file, l) = 0 THEN GenInit.current_chapter
    ELSE extract_chapter_from_line(Strip(file[LastHeader(file, l)]))

\* C10: the text lines of a yielded pair lie between the same two consecutive
\* header lines, and its chapter is the title of the header before them.
C10_ChapterAttribution ==
    \A i \in 1..Len(yielded) :
        \A a \in 1..Len(yielded[i].lines) :
            /\ ChapterAt(md_lines, yielded[i].lines[a]) = yielded[i].chapter
            /\ \A b \in 1..Len(yielded[i].lines) :
                  LastHeader(md_lines, yielded[i].lines[a])
                    = LastHeader(md_lines, yielded[i].lines[b])

====
